---- MODULE Spec2Model ----
(***************************************************************************)
(* JoBookBE: the application workflow, the post catalog and the feed of    *)
(* the job-board backend, modelled from the express route handlers.        *)
(*                                                                         *)
(* The relational store is the state: the tables posts, cvs, applications  *)
(* and follows are sets of rows, the serial id generators are counters.    *)
(* Time is counted in milliseconds, on two clocks: now is the store's      *)
(* CURRENT_TIMESTAMP, Date_now the Date.now() of the server process.  A    *)
(* handler H that awaits one query is the operator HResult, from the       *)
(* store and the request to the response and the tables it writes, and     *)
(* the action H that applies it.  A handler that awaits several queries    *)
(* is one action per query, with the request kept in a slot between them,  *)
(* so that other requests may run between its queries.                     *)
(***************************************************************************)
EXTENDS Integers, Sequences, FiniteSets, TLC

VARIABLES posts, cvs, applications, follows, next_id, now, Date_now, reqs

vars == <<posts, cvs, applications, follows, next_id, now, Date_now, reqs>>
db == <<posts, cvs, applications, follows, next_id>>
clock == <<now, Date_now>>

----------------------------------------------------------------------------
(* Bounds of the model *)

MaxPosts == 1
MaxFeedPosts == 2
MaxCvs == 1
MaxFollows == 1
MaxSkew == 1
MaxEdges == 2

----------------------------------------------------------------------------
(* The users table (rows resolved by the authentication middleware) *)

Candidates == {1, 2}
Companies == {3, 4}
Users == Candidates \cup Companies

AccountType(u) == IF u \in Candidates THEN "candidate" ELSE "company"

NULL == 0

----------------------------------------------------------------------------
(* authenticateToken.  A credential is absent, or a token that verifies or *)
(* not against the secret and names a user id.                              *)

NoToken == [present |-> FALSE, verifies |-> FALSE, userId |-> NULL]

\* A user id that a token may still name after the user is gone
FormerUser == 9

Tokens ==
  {NoToken} \cup
  [present : {TRUE}, verifies : BOOLEAN, userId : Users \cup {FormerUser}]

\* code 0: next() is called with req.user; any other code is the response
authenticateToken(token) ==
  IF ~token.present
  THEN [code |-> 401, msg |-> "Access token required", user |-> NULL]
  ELSE IF ~token.verifies
  THEN [code |-> 403, msg |-> "Invalid token", user |-> NULL]
  ELSE IF token.userId \notin Users
  THEN [code |-> 401, msg |-> "User not found", user |-> NULL]
  ELSE [code |-> 0, msg |-> "", user |-> token.userId]

PostTypes == {"find_job", "find_candidate"}

\* title of the request body; SomeTitle where the title plays no part
Titles == {"a", "b"}
SomeTitle == "a"
\* Mutant: a fifth status accepted
validStatusesAndWithdrawn == {"pending", "reviewed", "accepted", "rejected", "withdrawn"}

validStatuses == {"pending", "reviewed", "accepted", "rejected"}

\* 10 * 24 * 60 * 60 * 1000 milliseconds
TenDays == 10 * 24 * 60 * 60 * 1000

\* Column defaults of the schema
DefaultStatus == "pending"
DefaultIsActive == TRUE

----------------------------------------------------------------------------
(* Request parameters.  A route parameter is text, here a sequence of       *)
(* characters; the handler and the store each convert it to a number.  A    *)
(* character is a string of length one; a character that cannot be written  *)
(* in a string (the vertical tab, the characters outside ASCII) is the      *)
(* string that names its code point, as "U+00A0".                           *)

Digit == {"0", "1", "2", "3", "4", "5", "6", "7", "8", "9"}

\* The digits of radix 16 in the order of their values, in either case
HexDigits ==
  <<"0", "1", "2", "3", "4", "5", "6", "7", "8", "9", "a", "b", "c", "d", "e", "f">>
UpperHexDigits ==
  <<"0", "1", "2", "3", "4", "5", "6", "7", "8", "9", "A", "B", "C", "D", "E", "F">>

DigitValue(c) ==
  CHOOSE n \in 0..15 : HexDigits[n + 1] = c \/ UpperHexDigits[n + 1] = c

\* The characters that are digits in a radix up to 16
DigitsOf(radix) ==
  {HexDigits[n] : n \in 1..radix} \cup {UpperHexDigits[n] : n \in 1..radix}

\* The white space parseInt skips: WhiteSpace and LineTerminator of
\* ECMAScript
StrWhiteSpaceChar ==
  {"\t", "\n", "U+000B", "\f", "\r", " ", "U+00A0", "U+1680", "U+2000",
   "U+2001", "U+2002", "U+2003", "U+2004", "U+2005", "U+2006", "U+2007",
   "U+2008", "U+2009", "U+200A", "U+2028", "U+2029", "U+202F", "U+205F",
   "U+3000", "U+FEFF"}

\* The white space the store skips around an integer: isspace
PgWhiteSpace == {" ", "\t", "\n", "U+000B", "\f", "\r"}

\* The largest integer of 32 bits; the least is -Int4Max - 1
Int4Max == 2147483647

\* The values of a conversion.  NaN is what parseInt returns for text that
\* spells no number; Number(n) is the number n; Beyond(sign) is a number
\* that 32 bits do not hold, which equals no id; InvalidInteger is text that
\* the store does not read as an integer, on which the query throws
NaN == [kind |-> "NaN", n |-> 0]
Number(n) == [kind |-> "number", n |-> n]
Beyond(sign) == [kind |-> "beyond", n |-> sign]
InvalidInteger == [kind |-> "invalid", n |-> 0]

\* What stands for minus a number of more than 32 bits
Overflow == 1

\* minus (radix * n + d), where acc is minus n, as long as 32 bits hold it
Accumulate(acc, radix, d) ==
  LET q == Int4Max \div radix IN
  IF acc = Overflow THEN Overflow
  ELSE IF acc >= -q
  THEN IF d - 1 <= acc * radix + Int4Max THEN acc * radix - d ELSE Overflow
  ELSE IF acc = -q - 1 /\ Int4Max % radix = radix - 1 /\ d = 0
  THEN -Int4Max - 1
  ELSE Overflow

\* Minus the number that the leading digits of s spell in the radix, after
\* acc; the characters of skip are passed over
RECURSIVE LeadingDigits(_, _, _, _)
LeadingDigits(s, radix, acc, skip) ==
  IF s = <<>> THEN acc
  ELSE IF Head(s) \in skip THEN LeadingDigits(Tail(s), radix, acc, skip)
  ELSE IF Head(s) \notin DigitsOf(radix) THEN acc
  ELSE LeadingDigits(Tail(s), radix,
                     Accumulate(acc, radix, DigitValue(Head(s))), skip)

\* The value with its sign, from minus its magnitude
Signed(sign, negated) ==
  IF negated = Overflow \/ (sign = 1 /\ negated = -Int4Max - 1)
  THEN Beyond(sign)
  ELSE Number(IF sign = 1 THEN -negated ELSE negated)

RECURSIVE TrimStart(_, _)
TrimStart(s, space) ==
  IF s # <<>> /\ Head(s) \in space THEN TrimStart(Tail(s), space) ELSE s

RECURSIVE TrimEnd(_, _)
TrimEnd(s, space) ==
  IF s # <<>> /\ s[Len(s)] \in space
  THEN TrimEnd(SubSeq(s, 1, Len(s) - 1), space) ELSE s

\* parseInt(followingId) of JavaScript, without a radix: leading white space
\* is skipped, a sign is read, 0x or 0X makes the radix 16, and the number is
\* what the digits that follow spell, up to the first character that is no
\* digit; NaN when no digit follows
parseInt(s) ==
  LET trimmed == TrimStart(s, StrWhiteSpaceChar)
      signed == trimmed # <<>> /\ Head(trimmed) \in {"+", "-"}
      sign == IF signed /\ Head(trimmed) = "-" THEN -1 ELSE 1
      unsigned == IF signed THEN Tail(trimmed) ELSE trimmed
      hex == Len(unsigned) >= 2 /\ unsigned[1] = "0" /\ unsigned[2] \in {"x", "X"}
      radix == IF hex THEN 16 ELSE 10
      digits == IF hex THEN SubSeq(unsigned, 3, Len(unsigned)) ELSE unsigned
  IN
  IF digits = <<>> \/ Head(digits) \notin DigitsOf(radix) THEN NaN
  ELSE Signed(sign, LeadingDigits(digits, radix, 0, {}))

\* The store of the deployment, by the major version of PostgreSQL: one
\* before 16, and one from 16 on, whose integers have more spellings
PgVersions == {15, 16}

\* The radix that a prefix of the integers of PostgreSQL 16 announces, 10
\* when there is none
PgRadix(s, pg) ==
  IF pg < 16 \/ Len(s) < 2 \/ s[1] # "0" THEN 10
  ELSE IF s[2] \in {"x", "X"} THEN 16
  ELSE IF s[2] \in {"o", "O"} THEN 8
  ELSE IF s[2] \in {"b", "B"} THEN 2
  ELSE 10

\* The integer the store reads a query parameter as: white space around an
\* optionally signed number of 32 bits, which is decimal digits and, from
\* PostgreSQL 16 on, may have a prefix 0x, 0o or 0b and an underscore before
\* a digit (not as the first character of a decimal number); any other text
\* makes the query throw
PgInteger(s, pg) ==
  LET trimmed == TrimEnd(TrimStart(s, PgWhiteSpace), PgWhiteSpace)
      signed == trimmed # <<>> /\ Head(trimmed) \in {"+", "-"}
      sign == IF signed /\ Head(trimmed) = "-" THEN -1 ELSE 1
      unsigned == IF signed THEN Tail(trimmed) ELSE trimmed
      radix == PgRadix(unsigned, pg)
      digits == IF radix = 10 THEN unsigned ELSE SubSeq(unsigned, 3, Len(unsigned))
      separator == IF pg < 16 THEN {} ELSE {"_"}
      wellFormed ==
        /\ digits # <<>>
        /\ \A i \in DOMAIN digits :
             \/ digits[i] \in DigitsOf(radix)
             \/ /\ digits[i] \in separator
                /\ i < Len(digits) /\ digits[i + 1] \in DigitsOf(radix)
                /\ radix = 10 => i > 1
      value == Signed(sign, LeadingDigits(digits, radix, 0, separator))
  IN
  IF wellFormed /\ value.kind = "number" THEN value ELSE InvalidInteger

\* The text of the id of a user, as it is put into a route
UserIdParam(u) == <<<<"0", "1", "2", "3", "4", "5", "6", "7", "8", "9">>[u + 1]>>

----------------------------------------------------------------------------
(* Queries *)

\* SELECT ... FROM posts WHERE id = $1
PostById(post_id) == {p \in posts : p.id = post_id}

\* Mutant: the query without its is_active = true condition
UsableCvActiveOrNot(cv_id, user_id) ==
  {c \in cvs : c.id = cv_id /\ c.user_id = user_id}

\* Mutant: the query without its user_id = $2 condition
UsableCvOfAnyone(cv_id, user_id) ==
  {c \in cvs : c.id = cv_id /\ c.is_active}

\* SELECT id FROM cvs WHERE id = $1 AND user_id = $2 AND is_active = true
UsableCv(cv_id, user_id) ==
  {c \in cvs : c.id = cv_id /\ c.user_id = user_id /\ c.is_active}

\* Mutant: the two query parameters bound in the wrong order
ExistingApplicationSwapped(post_id, user_id) ==
  {a \in applications : a.post_id = user_id /\ a.applicant_id = post_id}

\* SELECT id FROM applications WHERE post_id = $1 AND applicant_id = $2
ExistingApplication(post_id, user_id) ==
  {a \in applications : a.post_id = post_id /\ a.applicant_id = user_id}

\* Mutant: the comparison of the expiry check reversed
isExpiredReversed(post, t) == post.created_at > t - TenDays

\* post.created_at < new Date(Date.now() - 10 * 24 * 60 * 60 * 1000)
isExpired(post, t) == post.created_at < t - TenDays

\* CASE WHEN p.post_type = 'find_candidate'
\*       AND p.created_at < (CURRENT_TIMESTAMP - INTERVAL '10 days')
is_expired(post, t) ==
  post.post_type = "find_candidate" /\ post.created_at < t - TenDays

\* Mutant: the applications table without its uniqueness constraint
NoUniqueApplication(post_id, user_id) == FALSE

\* UNIQUE (post_id, applicant_id) on applications
UniqueApplicationViolated(post_id, user_id) ==
  \E a \in applications : a.post_id = post_id /\ a.applicant_id = user_id

\* applications.post_id REFERENCES posts (id)
PostReferenceViolated(post_id) == ~ \E p \in posts : p.id = post_id

\* applications.cv_id and posts.attached_cv_id REFERENCES cvs (id); NULL
\* references nothing
CvReferenceViolated(cv_id) == cv_id # NULL /\ ~ \E c \in cvs : c.id = cv_id

\* The row INSERT INTO applications (post_id, cv_id, applicant_id) stores
NewApplication(post_id, cv_id, user_id) ==
  [id |-> next_id.applications, post_id |-> post_id, cv_id |-> cv_id,
   applicant_id |-> user_id, status |-> DefaultStatus]

\* Mutant: the update without its posts.user_id = $3 condition
UpdatableApplicationsOfAnyone(app_id, user_id) ==
  {a \in applications : a.id = app_id /\ \E p \in posts : a.post_id = p.id}

\* The rows UPDATE applications ... FROM posts WHERE ... matches
UpdatableApplications(app_id, user_id) ==
  {a \in applications :
     /\ a.id = app_id
     /\ \E p \in posts : a.post_id = p.id /\ p.user_id = user_id}

----------------------------------------------------------------------------
(* Requests in flight: a request is at the query it awaits (pc), and keeps *)
(* its response (code, msg) once sent.  seen is the status the application *)
(* had when a status update was received, text the :userId parameter as   *)
(* it came and pg the store that reads it, rows the rows of a feed         *)
(* response in their order, found the rows of any other response, at the   *)
(* Date.now() an apply request has read for its expiry check.              *)

Slots == {1, 2}

Idle ==
  [pc |-> "idle", op |-> "", actor |-> 0, id |-> 0, cv |-> 0, status |-> "",
   title |-> "", text |-> <<>>, pg |-> 0, seen |-> "", code |-> 0, msg |-> "",
   rows |-> <<>>, found |-> {}, at |-> 0]

Respond(req, code, msg) == [req EXCEPT !.pc = "done", !.code = code, !.msg = msg]

\* A slot takes a request when no request is under way in it
Free(s) == reqs[s].pc \in {"idle", "done"}

\* No request is under way and every response has been delivered
Quiet == \A s \in Slots : reqs[s].pc = "idle"

\* The response is delivered and the request is over
Close(s) ==
  /\ reqs[s].pc = "done"
  /\ reqs' = [reqs EXCEPT ![s] = Idle]
  /\ UNCHANGED <<db, clock>>

\* A request whose credential the middleware refuses: the response is sent
\* and the handler is not run
Rejected(s, token) ==
  LET auth == authenticateToken(token) IN
  /\ Free(s)
  /\ auth.code # 0
  /\ reqs' = [reqs EXCEPT ![s] =
       Respond([Idle EXCEPT !.op = "authenticateToken"], auth.code, auth.msg)]
  /\ UNCHANGED <<db, clock>>

----------------------------------------------------------------------------
Init ==
  /\ posts = {}
  /\ cvs = {}
  /\ applications = {}
  /\ follows = {}
  /\ next_id = [posts |-> 1, cvs |-> 1, applications |-> 1, follows |-> 1]
  /\ now = 0
  /\ Date_now = 0
  /\ reqs = [s \in Slots |-> Idle]

----------------------------------------------------------------------------
(* The clock *)

\* Both clocks advance, neither goes back; after the step the clock of the
\* server process is skew ms ahead of the store's
Advance(d, skew) ==
  /\ now' = now + d
  /\ Date_now' = now + d + skew
  /\ Date_now' >= Date_now
  /\ UNCHANGED <<db, reqs>>

----------------------------------------------------------------------------
(* POST /posts *)

\* The row INSERT INTO posts (user_id, post_type, title, description,
\* attached_cv_id) stores; description is written as title is
NewPost(user_id, post_type, title, attached_cv_id) ==
  [id |-> next_id.posts, user_id |-> user_id, post_type |-> post_type,
   title |-> title, attached_cv_id |-> attached_cv_id,
   created_at |-> now, updated_at |-> now]

\* An INSERT the store refuses has taken its id from the sequence: the
\* query throws, and the handler answers 500
RefusedPost ==
  [code |-> 500, msg |-> "Server error", posts |-> posts,
   next_id |-> [next_id EXCEPT !.posts = @ + 1]]

\* Mutant: the account type of the author is not checked
CreatePostResultAnyAccount(actor, post_type, title, attached_cv_id) ==
  IF post_type = "find_job" /\ attached_cv_id = NULL
  THEN [code |-> 400, msg |-> "CV is required for job seeking posts",
        posts |-> posts, next_id |-> next_id]
  ELSE IF CvReferenceViolated(attached_cv_id)
  THEN RefusedPost
  ELSE [code |-> 201, msg |-> "",
        posts |-> posts \cup
          {NewPost(actor, post_type, title, attached_cv_id)},
        next_id |-> [next_id EXCEPT !.posts = @ + 1]]

CreatePostResult(actor, post_type, title, attached_cv_id) ==
  LET fail(code, msg) ==
        [code |-> code, msg |-> msg, posts |-> posts, next_id |-> next_id]
  IN
  IF post_type = "find_job" /\ AccountType(actor) # "candidate"
  THEN fail(400, "Only candidates can create find_job posts")
  ELSE IF post_type = "find_candidate" /\ AccountType(actor) # "company"
  THEN fail(400, "Only companies can create find_candidate posts")
  ELSE IF post_type = "find_job" /\ attached_cv_id = NULL
  THEN fail(400, "CV is required for job seeking posts")
  ELSE IF CvReferenceViolated(attached_cv_id)
  THEN RefusedPost
  ELSE [code |-> 201, msg |-> "",
        posts |-> posts \cup
          {NewPost(actor, post_type, title, attached_cv_id)},
        next_id |-> [next_id EXCEPT !.posts = @ + 1]]

\* Whether the store restricts posts.post_type to the two types
PostTypeConstraint == {"none", "check"}

\* The responses POST /posts may give: the handler does not look at a
\* post_type that is neither type, and the INSERT stores the row unless the
\* store refuses the value
CreatePostResults(actor, post_type, title, attached_cv_id) ==
  LET r == CreatePostResult(actor, post_type, title, attached_cv_id) IN
  IF r.code = 201 /\ post_type \notin PostTypes
  THEN {IF k = "check" THEN RefusedPost ELSE r : k \in PostTypeConstraint}
  ELSE {r}

CreatePost(actor, post_type, title, attached_cv_id) ==
  \E r \in CreatePostResults(actor, post_type, title, attached_cv_id) :
  /\ posts' = r.posts
  /\ next_id' = r.next_id
  /\ UNCHANGED <<cvs, applications, follows, clock, reqs>>

----------------------------------------------------------------------------
(* POST /cvs/upload, PATCH /cvs/:id/toggle *)

\* file: whether the upload middleware has set req.file, which it does when
\* the request carries a PDF in its cv field
UploadCvResult(actor, file) ==
  IF ~file
  THEN [code |-> 400, msg |-> "No file uploaded",
        cvs |-> cvs, next_id |-> next_id]
  ELSE IF AccountType(actor) # "candidate"
  THEN [code |-> 403, msg |-> "Only candidates can upload CVs",
        cvs |-> cvs, next_id |-> next_id]
  ELSE [code |-> 201, msg |-> "CV uploaded successfully",
        cvs |-> cvs \cup
          {[id |-> next_id.cvs, user_id |-> actor, is_active |-> DefaultIsActive]},
        next_id |-> [next_id EXCEPT !.cvs = @ + 1]]

UploadCv(actor, file) ==
  LET r == UploadCvResult(actor, file) IN
  /\ cvs' = r.cvs
  /\ next_id' = r.next_id
  /\ UNCHANGED <<posts, applications, follows, clock, reqs>>

ToggleCvResult(actor, cv_id) ==
  LET hit == {c \in cvs : c.id = cv_id /\ c.user_id = actor} IN
  IF hit = {}
  THEN [code |-> 404, msg |-> "CV not found", cvs |-> cvs]
  ELSE [code |-> 200, msg |-> "",
        cvs |-> (cvs \ hit) \cup {[c EXCEPT !.is_active = ~c.is_active] : c \in hit}]

ToggleCv(actor, cv_id) ==
  /\ cvs' = ToggleCvResult(actor, cv_id).cvs
  /\ UNCHANGED <<posts, applications, follows, next_id, clock, reqs>>

----------------------------------------------------------------------------
(* POST /applications.  ApplyResultAt is the response, and the tables       *)
(* written, of a request whose queries all read the present tables and     *)
(* whose expiry check reads t from the clock of the server process: a      *)
(* request that is served with no other request between its queries.       *)
(* ApplyResult is that of a request served at the present instant.  The    *)
(* handler itself is the steps ApplyStart .. ApplyInsert, one for each     *)
(* query it awaits, and the clocks run on between them.                    *)

ApplyResultAt(actor, post_id, cv_id, t) ==
  LET fail(code, msg) ==
        [code |-> code, msg |-> msg,
         applications |-> applications, next_id |-> next_id]
      postResult == PostById(post_id)
      post == CHOOSE p \in postResult : TRUE
  IN
  IF AccountType(actor) # "candidate"
  THEN fail(403, "Only candidates can apply to posts")
  ELSE IF postResult = {}
  THEN fail(404, "Post not found")
  ELSE IF post.post_type # "find_candidate"
  THEN fail(400, "Can only apply to find_candidate posts")
  ELSE IF isExpired(post, t)
  THEN fail(400, "This job post has expired and no longer accepts applications")
  ELSE IF UsableCv(cv_id, actor) = {}
  THEN fail(400, "CV not found or not active")
  ELSE IF ExistingApplication(post_id, actor) # {}
  THEN fail(400, "Already applied to this post")
  ELSE IF UniqueApplicationViolated(post_id, actor)
  THEN [code |-> 500, msg |-> "Server error", applications |-> applications,
        next_id |-> [next_id EXCEPT !.applications = @ + 1]]
  ELSE [code |-> 201, msg |-> "Application submitted successfully",
        applications |-> applications \cup {NewApplication(post_id, cv_id, actor)},
        next_id |-> [next_id EXCEPT !.applications = @ + 1]]

ApplyResult(actor, post_id, cv_id) ==
  ApplyResultAt(actor, post_id, cv_id, Date_now)

ApplyStart(s, actor, post_id, cv_id) ==
  LET req == [Idle EXCEPT !.op = "apply", !.actor = actor, !.id = post_id,
                          !.cv = cv_id]
  IN
  /\ Free(s)
  /\ reqs' = [reqs EXCEPT ![s] =
       IF AccountType(actor) # "candidate"
       THEN Respond(req, 403, "Only candidates can apply to posts")
       ELSE [req EXCEPT !.pc = "post"]]
  /\ UNCHANGED <<db, clock>>

ApplyPostQuery(s) ==
  LET req == reqs[s]
      postResult == PostById(req.id)
      post == CHOOSE p \in postResult : TRUE
  IN
  /\ req.op = "apply" /\ req.pc = "post"
  /\ reqs' = [reqs EXCEPT ![s] =
       IF postResult = {}
       THEN Respond(req, 404, "Post not found")
       ELSE IF post.post_type # "find_candidate"
       THEN Respond(req, 400, "Can only apply to find_candidate posts")
       ELSE IF isExpired(post, Date_now)
       THEN Respond([req EXCEPT !.at = Date_now], 400,
              "This job post has expired and no longer accepts applications")
       ELSE [req EXCEPT !.pc = "cv", !.at = Date_now]]
  /\ UNCHANGED <<db, clock>>

ApplyCvQuery(s) ==
  LET req == reqs[s] IN
  /\ req.op = "apply" /\ req.pc = "cv"
  /\ reqs' = [reqs EXCEPT ![s] =
       IF UsableCv(req.cv, req.actor) = {}
       THEN Respond(req, 400, "CV not found or not active")
       ELSE [req EXCEPT !.pc = "existing"]]
  /\ UNCHANGED <<db, clock>>

ApplyExistingQuery(s) ==
  LET req == reqs[s] IN
  /\ req.op = "apply" /\ req.pc = "existing"
  /\ reqs' = [reqs EXCEPT ![s] =
       IF ExistingApplication(req.id, req.actor) # {}
       THEN Respond(req, 400, "Already applied to this post")
       ELSE [req EXCEPT !.pc = "insert"]]
  /\ UNCHANGED <<db, clock>>

\* The INSERT takes its id from the sequence whether the store keeps the row
\* or refuses it: the pair is stored already, or the post or the CV is gone
ApplyInsert(s) ==
  LET req == reqs[s] IN
  /\ req.op = "apply" /\ req.pc = "insert"
  /\ next_id' = [next_id EXCEPT !.applications = @ + 1]
  /\ IF \/ UniqueApplicationViolated(req.id, req.actor)
        \/ PostReferenceViolated(req.id)
        \/ CvReferenceViolated(req.cv)
     THEN /\ reqs' = [reqs EXCEPT ![s] = Respond(req, 500, "Server error")]
          /\ UNCHANGED applications
     ELSE /\ applications' =
               applications \cup {NewApplication(req.id, req.cv, req.actor)}
          /\ reqs' = [reqs EXCEPT ![s] =
               Respond(req, 201, "Application submitted successfully")]
  /\ UNCHANGED <<posts, cvs, follows, clock>>

----------------------------------------------------------------------------
(* PATCH /applications/:id/status *)

UpdateStatusResult(actor, app_id, status) ==
  LET hit == UpdatableApplications(app_id, actor) IN
  IF status \notin validStatuses
  THEN [code |-> 400, msg |-> "Invalid status", applications |-> applications]
  ELSE IF hit = {}
  THEN [code |-> 404, msg |-> "Application not found or not authorized",
        applications |-> applications]
  ELSE [code |-> 200, msg |-> "Application status updated",
        applications |->
          (applications \ hit) \cup {[a EXCEPT !.status = status] : a \in hit}]

UpdateStatus(actor, app_id, status) ==
  /\ applications' = UpdateStatusResult(actor, app_id, status).applications
  /\ UNCHANGED <<posts, cvs, follows, next_id, clock, reqs>>

\* The status of the application, "" when there is none
StatusOf(app_id) ==
  IF \E a \in applications : a.id = app_id
  THEN (CHOOSE a \in applications : a.id = app_id).status
  ELSE ""

\* The same handler with its request kept: received, then its one query
UpdateStatusStart(s, actor, app_id, status) ==
  LET req == [Idle EXCEPT !.op = "updateStatus", !.actor = actor, !.id = app_id,
                          !.status = status, !.seen = StatusOf(app_id)]
  IN
  /\ Free(s)
  /\ reqs' = [reqs EXCEPT ![s] =
       IF status \notin validStatuses
       THEN Respond(req, 400, "Invalid status")
       ELSE [req EXCEPT !.pc = "update"]]
  /\ UNCHANGED <<db, clock>>

UpdateStatusQuery(s) ==
  LET req == reqs[s]
      r == UpdateStatusResult(req.actor, req.id, req.status)
  IN
  /\ req.op = "updateStatus" /\ req.pc = "update"
  /\ applications' = r.applications
  /\ reqs' = [reqs EXCEPT ![s] = Respond(req, r.code, r.msg)]
  /\ UNCHANGED <<posts, cvs, follows, next_id, clock>>

----------------------------------------------------------------------------
(* POST /follows/:userId, DELETE /follows/:userId *)

\* SELECT * FROM follows WHERE follower_id = $1 AND following_id = $2
ExistingFollow(follower_id, following_id) ==
  {f \in follows : f.follower_id = follower_id /\ f.following_id = following_id}

\* Mutant: the follows table without its uniqueness constraint
NoUniqueFollow(follower_id, following_id) == FALSE

\* UNIQUE (follower_id, following_id) on follows
UniqueFollowViolated(follower_id, following_id) ==
  \E f \in follows : f.follower_id = follower_id /\ f.following_id = following_id

\* The row INSERT INTO follows (follower_id, following_id) stores
NewFollow(follower_id, following_id) ==
  [id |-> next_id.follows, follower_id |-> follower_id, following_id |-> following_id]

\* followingId is the text of the :userId parameter, pg the store that reads
\* it.  FollowResult is the response, and the tables written, of a request
\* that is served with no other request between its queries; the handler
\* itself is the steps FollowStart .. FollowInsert, one for each query it
\* awaits
FollowResult(followerId, followingId, pg) ==
  LET fail(code, msg) ==
        [code |-> code, msg |-> msg, follows |-> follows, next_id |-> next_id]
      following == PgInteger(followingId, pg)
  IN
  IF Number(followerId) = parseInt(followingId)
  THEN fail(400, "Cannot follow yourself")
  ELSE IF following = InvalidInteger
  THEN fail(500, "Server error")
  ELSE IF following.n \notin Users
  THEN fail(404, "User not found")
  ELSE IF ExistingFollow(followerId, following.n) # {}
  THEN fail(400, "Already following this user")
  ELSE IF UniqueFollowViolated(followerId, following.n)
  THEN [code |-> 500, msg |-> "Server error", follows |-> follows,
        next_id |-> [next_id EXCEPT !.follows = @ + 1]]
  ELSE [code |-> 201, msg |-> "Successfully followed user",
        follows |-> follows \cup {NewFollow(followerId, following.n)},
        next_id |-> [next_id EXCEPT !.follows = @ + 1]]

\* The request keeps the parameter as text: the store reads it in each query
FollowStart(s, followerId, followingId, pg) ==
  LET req == [Idle EXCEPT !.op = "follow", !.actor = followerId,
                          !.text = followingId, !.pg = pg]
  IN
  /\ Free(s)
  /\ reqs' = [reqs EXCEPT ![s] =
       IF Number(followerId) = parseInt(followingId)
       THEN Respond(req, 400, "Cannot follow yourself")
       ELSE [req EXCEPT !.pc = "user"]]
  /\ UNCHANGED <<db, clock>>

FollowUserQuery(s) ==
  LET req == reqs[s]
      following == PgInteger(req.text, req.pg)
  IN
  /\ req.op = "follow" /\ req.pc = "user"
  /\ reqs' = [reqs EXCEPT ![s] =
       IF following = InvalidInteger
       THEN Respond(req, 500, "Server error")
       ELSE IF following.n \notin Users
       THEN Respond(req, 404, "User not found")
       ELSE [req EXCEPT !.pc = "existing"]]
  /\ UNCHANGED <<db, clock>>

FollowExistingQuery(s) ==
  LET req == reqs[s]
      following == PgInteger(req.text, req.pg)
  IN
  /\ req.op = "follow" /\ req.pc = "existing"
  /\ reqs' = [reqs EXCEPT ![s] =
       IF following = InvalidInteger
       THEN Respond(req, 500, "Server error")
       ELSE IF ExistingFollow(req.actor, following.n) # {}
       THEN Respond(req, 400, "Already following this user")
       ELSE [req EXCEPT !.pc = "insert"]]
  /\ UNCHANGED <<db, clock>>

FollowInsert(s) ==
  LET req == reqs[s]
      following == PgInteger(req.text, req.pg)
  IN
  /\ req.op = "follow" /\ req.pc = "insert"
  /\ IF following = InvalidInteger
     THEN \* the parameter is refused before the statement runs
          /\ reqs' = [reqs EXCEPT ![s] = Respond(req, 500, "Server error")]
          /\ UNCHANGED <<follows, next_id>>
     ELSE IF UniqueFollowViolated(req.actor, following.n)
     THEN \* the refused INSERT has taken its id from the sequence
          /\ reqs' = [reqs EXCEPT ![s] = Respond(req, 500, "Server error")]
          /\ next_id' = [next_id EXCEPT !.follows = @ + 1]
          /\ UNCHANGED follows
     ELSE /\ follows' = follows \cup {NewFollow(req.actor, following.n)}
          /\ next_id' = [next_id EXCEPT !.follows = @ + 1]
          /\ reqs' = [reqs EXCEPT ![s] =
               Respond(req, 201, "Successfully followed user")]
  /\ UNCHANGED <<posts, cvs, applications, clock>>

\* Mutant: the DELETE without its following_id = $2 condition
UnfollowFromEveryone(edges, followerId, followingId, pg) ==
  LET hit == {f \in edges : f.follower_id = followerId} IN
  IF PgInteger(followingId, pg) = InvalidInteger
  THEN [code |-> 500, msg |-> "Server error", follows |-> edges]
  ELSE IF hit = {}
  THEN [code |-> 404, msg |-> "Not following this user", follows |-> edges]
  ELSE [code |-> 200, msg |-> "Successfully unfollowed user", follows |-> edges \ hit]

\* DELETE FROM follows WHERE follower_id = $1 AND following_id = $2, on the
\* follows table edges
UnfollowFrom(edges, followerId, followingId, pg) ==
  LET following == PgInteger(followingId, pg)
      hit == {f \in edges :
                f.follower_id = followerId /\ f.following_id = following.n}
  IN
  IF following = InvalidInteger
  THEN [code |-> 500, msg |-> "Server error", follows |-> edges]
  ELSE IF hit = {}
  THEN [code |-> 404, msg |-> "Not following this user", follows |-> edges]
  ELSE [code |-> 200, msg |-> "Successfully unfollowed user", follows |-> edges \ hit]

UnfollowResult(followerId, followingId, pg) ==
  UnfollowFrom(follows, followerId, followingId, pg)

Unfollow(followerId, followingId, pg) ==
  /\ follows' = UnfollowResult(followerId, followingId, pg).follows
  /\ UNCHANGED <<posts, cvs, applications, next_id, clock, reqs>>

----------------------------------------------------------------------------
(* GET /posts: the feed *)

NoFollow == [id |-> NULL, follower_id |-> NULL, following_id |-> NULL]

\* Mutant: the join without its f.follower_id = $1 condition
FeedJoinOfAnyFollower(viewer, type) ==
  LET matches(p) == {f \in follows : f.following_id = p.user_id}
      selected == {p \in posts : p.user_id \in Users /\ (type = "" \/ p.post_type = type)}
  IN
  {pf \in selected \X (follows \cup {NoFollow}) :
     IF matches(pf[1]) = {} THEN pf[2] = NoFollow ELSE pf[2] \in matches(pf[1])}

\* FROM posts p JOIN users u ... LEFT JOIN follows f
\*   ON f.following_id = p.user_id AND f.follower_id = $1  [WHERE p.post_type = $2]
FeedJoin(viewer, type) ==
  LET matches(p) ==
        {f \in follows : f.following_id = p.user_id /\ f.follower_id = viewer}
      selected == {p \in posts : p.user_id \in Users /\ (type = "" \/ p.post_type = type)}
  IN
  {pf \in selected \X (follows \cup {NoFollow}) :
     IF matches(pf[1]) = {} THEN pf[2] = NoFollow ELSE pf[2] \in matches(pf[1])}

\* The three ORDER BY keys of a joined row; created_at DESC is negated
ExpirationKey(pf) == IF is_expired(pf[1], now) THEN 1 ELSE 0
FollowKey(pf) == IF pf[2].follower_id # NULL THEN 0 ELSE 1

\* Mutant: followed authors ranked before the expiration bucket
OrderKeyFollowFirst(pf) == <<FollowKey(pf), ExpirationKey(pf), -pf[1].created_at>>

OrderKey(pf) == <<ExpirationKey(pf), FollowKey(pf), -pf[1].created_at>>

KeyLeq(a, b) ==
  \/ a[1] < b[1]
  \/ a[1] = b[1] /\ a[2] < b[2]
  \/ a[1] = b[1] /\ a[2] = b[2] /\ a[3] <= b[3]

\* Every order the sort may return: rows with equal keys come in any order
RECURSIVE Orderings(_)
Orderings(rows) ==
  IF rows = {} THEN {<<>>}
  ELSE LET least == {r \in rows : \A q \in rows : KeyLeq(OrderKey(r), OrderKey(q))}
       IN UNION {{<<r>> \o s : s \in Orderings(rows \ {r})} : r \in least}

\* The columns of a result row that the model keeps
FeedRow(pf) ==
  [id |-> pf[1].id, user_id |-> pf[1].user_id, post_type |-> pf[1].post_type,
   created_at |-> pf[1].created_at,
   is_following_author |-> pf[2].follower_id # NULL,
   is_expired |-> is_expired(pf[1], now)]

\* LIMIT $limit OFFSET $offset
LimitOffset(s, limit, offset) ==
  [i \in 1..(IF Len(s) - offset < limit
               THEN (IF Len(s) - offset < 0 THEN 0 ELSE Len(s) - offset)
               ELSE limit) |-> s[offset + i]]

\* The sorted rows of the query of GET /posts, before LIMIT and OFFSET
SortedFeeds(viewer, type) ==
  {[i \in DOMAIN s |-> FeedRow(s[i])] : s \in Orderings(FeedJoin(viewer, type))}

\* The results the query of GET /posts may return
ListResults(viewer, type, page, limit) ==
  LET offset == (page - 1) * limit IN
  {LimitOffset(s, limit, offset) : s \in SortedFeeds(viewer, type)}

\* The store refuses a negative LIMIT or OFFSET, and the query throws
LimitOffsetRefused(limit, offset) == limit < 0 \/ offset < 0

\* The responses GET /posts may give
ListResponses(viewer, type, page, limit) ==
  IF LimitOffsetRefused(limit, (page - 1) * limit)
  THEN {[code |-> 500, msg |-> "Server error", rows |-> <<>>]}
  ELSE {[code |-> 200, msg |-> "", rows |-> rows] :
          rows \in ListResults(viewer, type, page, limit)}

\* The handler reads, and writes nothing
List(viewer, type, page, limit) == UNCHANGED vars

\* The same handler with its request kept: received, then its one query,
\* which reads posts and follows in one statement
ListStart(s, viewer, type, page, limit) ==
  /\ Free(s)
  /\ reqs' = [reqs EXCEPT ![s] =
       [Idle EXCEPT !.op = "list", !.pc = "query", !.actor = viewer,
                    !.status = type, !.id = page, !.cv = limit]]
  /\ UNCHANGED <<db, clock>>

ListQuery(s) ==
  LET req == reqs[s] IN
  /\ req.op = "list" /\ req.pc = "query"
  /\ \E r \in ListResponses(req.actor, req.status, req.id, req.cv) :
       reqs' = [reqs EXCEPT ![s] = [Respond(req, r.code, r.msg) EXCEPT !.rows = r.rows]]
  /\ UNCHANGED <<db, clock>>

----------------------------------------------------------------------------
(* GET /posts/:id *)

GetPostResult(post_id) ==
  LET result == {p \in posts : p.id = post_id /\ p.user_id \in Users} IN
  IF result = {}
  THEN [code |-> 404, msg |-> "Post not found", rows |-> {}]
  ELSE [code |-> 200, msg |-> "",
        rows |-> {[id |-> p.id, user_id |-> p.user_id, post_type |-> p.post_type,
                   created_at |-> p.created_at, is_expired |-> is_expired(p, now)]
                  : p \in result}]

GetPost(post_id) == UNCHANGED vars

----------------------------------------------------------------------------
(* PUT /posts/:id, DELETE /posts/:id *)

\* Mutant: the query without its user_id = $2 condition
OwnedPostOfAnyone(post_id, user_id) == {p \in posts : p.id = post_id}

\* SELECT * FROM posts WHERE id = $1 AND user_id = $2
OwnedPost(post_id, user_id) == {p \in posts : p.id = post_id /\ p.user_id = user_id}

\* Mutant: no CV is asked for
CvNeverRequired(post, attached_cv_id) == FALSE

\* post.post_type === 'find_job' && !attached_cv_id
CvRequired(post, attached_cv_id) ==
  post.post_type = "find_job" /\ attached_cv_id = NULL

\* The row that UPDATE posts SET title = $1, description = $2,
\* attached_cv_id = $3, updated_at = CURRENT_TIMESTAMP makes of the row p
UpdatedPost(p, title, attached_cv_id) ==
  [p EXCEPT !.title = title, !.attached_cv_id = attached_cv_id,
            !.updated_at = now]

\* The response, and the posts written, of a request that is served with no
\* other request between its two queries; the handler itself is the steps
\* UpdatePostStart, UpdatePostCheckQuery, UpdatePostUpdateQuery
UpdatePostResult(actor, post_id, title, attached_cv_id) ==
  LET checkResult == OwnedPost(post_id, actor)
      post == CHOOSE p \in checkResult : TRUE
      updated == {UpdatedPost(p, title, attached_cv_id) : p \in checkResult}
  IN
  IF checkResult = {}
  THEN [code |-> 404, msg |-> "Post not found or not authorized",
        posts |-> posts, found |-> {}]
  ELSE IF CvRequired(post, attached_cv_id)
  THEN [code |-> 400, msg |-> "CV is required for job seeking posts",
        posts |-> posts, found |-> {}]
  ELSE IF CvReferenceViolated(attached_cv_id)
  THEN [code |-> 500, msg |-> "Server error", posts |-> posts, found |-> {}]
  ELSE [code |-> 200, msg |-> "",
        posts |-> (posts \ checkResult) \cup updated, found |-> updated]

UpdatePostStart(s, actor, post_id, title, attached_cv_id) ==
  /\ Free(s)
  /\ reqs' = [reqs EXCEPT ![s] =
       [Idle EXCEPT !.op = "updatePost", !.pc = "check", !.actor = actor,
                    !.id = post_id, !.title = title, !.cv = attached_cv_id]]
  /\ UNCHANGED <<db, clock>>

UpdatePostCheckQuery(s) ==
  LET req == reqs[s]
      checkResult == OwnedPost(req.id, req.actor)
      post == CHOOSE p \in checkResult : TRUE
  IN
  /\ req.op = "updatePost" /\ req.pc = "check"
  /\ reqs' = [reqs EXCEPT ![s] =
       IF checkResult = {}
       THEN Respond(req, 404, "Post not found or not authorized")
       ELSE IF CvRequired(post, req.cv)
       THEN Respond(req, 400, "CV is required for job seeking posts")
       ELSE [req EXCEPT !.pc = "update"]]
  /\ UNCHANGED <<db, clock>>

\* The UPDATE writes the rows its WHERE id = $4 AND user_id = $5 matches at
\* this instant; the response is 200 with the first of them, or with no post
\* when it matches none.  The store refuses to write a row that references a
\* CV that is not stored: the query throws, and the handler answers 500
UpdatePostUpdateQuery(s) ==
  LET req == reqs[s]
      hit == OwnedPost(req.id, req.actor)
      updated == {UpdatedPost(p, req.title, req.cv) : p \in hit}
  IN
  /\ req.op = "updatePost" /\ req.pc = "update"
  /\ IF hit # {} /\ CvReferenceViolated(req.cv)
     THEN /\ UNCHANGED posts
          /\ reqs' = [reqs EXCEPT ![s] = Respond(req, 500, "Server error")]
     ELSE /\ posts' = (posts \ hit) \cup updated
          /\ reqs' = [reqs EXCEPT ![s] =
               [Respond(req, 200, "") EXCEPT !.found = updated]]
  /\ UNCHANGED <<cvs, applications, follows, next_id, clock>>

\* What the store does with a DELETE of rows that other rows reference: it
\* refuses the statement, or it deletes the referencing rows with them
OnDeleteReferenced == {"restrict", "cascade"}

\* The responses DELETE /posts/:id may give, with the tables they leave
DeletePostResults(actor, post_id) ==
  LET hit == OwnedPost(post_id, actor)
      dependents == {a \in applications : a.post_id = post_id}
      deleted == [code |-> 200, msg |-> "Post deleted successfully",
                  posts |-> posts \ hit, applications |-> applications \ dependents]
      refused == [code |-> 500, msg |-> "Server error",
                  posts |-> posts, applications |-> applications]
  IN
  IF hit = {}
  THEN {[code |-> 404, msg |-> "Post not found or not authorized",
         posts |-> posts, applications |-> applications]}
  ELSE IF dependents = {}
  THEN {deleted}
  ELSE {IF policy = "restrict" THEN refused ELSE deleted : policy \in OnDeleteReferenced}

DeletePost(actor, post_id) ==
  \E r \in DeletePostResults(actor, post_id) :
    /\ posts' = r.posts
    /\ applications' = r.applications
    /\ UNCHANGED <<cvs, follows, next_id, clock, reqs>>

----------------------------------------------------------------------------
(* DELETE /cvs/:id *)

\* The responses DELETE /cvs/:id may give, with the tables they leave
DeleteCvResults(actor, cv_id) ==
  LET hit == {c \in cvs : c.id = cv_id /\ c.user_id = actor}
      attached == {p \in posts : p.attached_cv_id = cv_id}
      dependents == {a \in applications :
                       a.cv_id = cv_id \/ \E p \in attached : a.post_id = p.id}
      deleted == [code |-> 200, msg |-> "CV deleted successfully", cvs |-> cvs \ hit,
                  posts |-> posts \ attached,
                  applications |-> applications \ dependents]
      refused == [code |-> 500, msg |-> "Server error", cvs |-> cvs,
                  posts |-> posts, applications |-> applications]
  IN
  IF hit = {}
  THEN {[code |-> 404, msg |-> "CV not found", cvs |-> cvs,
         posts |-> posts, applications |-> applications]}
  ELSE IF attached = {} /\ dependents = {}
  THEN {deleted}
  ELSE {IF policy = "restrict" THEN refused ELSE deleted : policy \in OnDeleteReferenced}

DeleteCv(actor, cv_id) ==
  \E r \in DeleteCvResults(actor, cv_id) :
    /\ cvs' = r.cvs
    /\ posts' = r.posts
    /\ applications' = r.applications
    /\ UNCHANGED <<follows, next_id, clock, reqs>>

----------------------------------------------------------------------------
(* GET /applications/post/:postId *)

\* SELECT a.*, ... FROM applications a JOIN users u ON a.applicant_id = u.id
\*   JOIN cvs c ON a.cv_id = c.id WHERE a.post_id = $1
ApplicationsOfPost(post_id) ==
  {a \in applications :
     /\ a.post_id = post_id
     /\ a.applicant_id \in Users
     /\ \E c \in cvs : c.id = a.cv_id}

\* The response of a request that is served with no other request between
\* its two queries; the handler itself is the steps ListForPostStart,
\* ListForPostPostQuery, ListForPostApplicationsQuery
ListForPostResult(actor, post_id) ==
  LET postResult == PostById(post_id) IN
  IF postResult = {}
  THEN [code |-> 404, msg |-> "Post not found", rows |-> {}]
  ELSE IF (CHOOSE p \in postResult : TRUE).user_id # actor
  THEN [code |-> 403, msg |-> "Not authorized to view these applications", rows |-> {}]
  ELSE [code |-> 200, msg |-> "", rows |-> ApplicationsOfPost(post_id)]

ListForPostStart(s, actor, post_id) ==
  /\ Free(s)
  /\ reqs' = [reqs EXCEPT ![s] =
       [Idle EXCEPT !.op = "listForPost", !.pc = "post", !.actor = actor,
                    !.id = post_id]]
  /\ UNCHANGED <<db, clock>>

ListForPostPostQuery(s) ==
  LET req == reqs[s]
      postResult == PostById(req.id)
  IN
  /\ req.op = "listForPost" /\ req.pc = "post"
  /\ reqs' = [reqs EXCEPT ![s] =
       IF postResult = {}
       THEN Respond(req, 404, "Post not found")
       ELSE IF (CHOOSE p \in postResult : TRUE).user_id # req.actor
       THEN Respond(req, 403, "Not authorized to view these applications")
       ELSE [req EXCEPT !.pc = "applications"]]
  /\ UNCHANGED <<db, clock>>

ListForPostApplicationsQuery(s) ==
  LET req == reqs[s] IN
  /\ req.op = "listForPost" /\ req.pc = "applications"
  /\ reqs' = [reqs EXCEPT ![s] =
       [Respond(req, 200, "") EXCEPT !.found = ApplicationsOfPost(req.id)]]
  /\ UNCHANGED <<db, clock>>

----------------------------------------------------------------------------
(* Requests served one at a time: a request is received when no other is   *)
(* under way, and the clock does not advance while one is.  A request of a  *)
(* handler that awaits several queries runs in slot 1, query by query.      *)

PostIds == 1..(MaxPosts + 1)
CvIds == 1..(MaxCvs + 1)
AppIds == 1..(MaxPosts + 1)
\* status of the request body: the four statuses, another word, another
\* spelling, and the value of a body without the field
Statuses == validStatuses \cup {"withdrawn", "Accepted", "undefined"}
ClockSteps == {1, TenDays}
\* The candidate who uploads CVs and applies, and a company
Applicant == 2
Recruiter == 3

\* The instants the model visits: 0, and 10 days later up to MaxSkew ms more
InWindow(t) == t = 0 \/ (TenDays <= t /\ t <= TenDays + MaxSkew)

\* How far the clock of the server process is ahead of the store's, in ms
Skews == (-MaxSkew)..MaxSkew

(* The status workflow: applications of one candidate to the posts of the  *)
(* companies, and status updates by every user with every status           *)
Next ==
  \/ /\ Quiet /\ next_id.posts <= MaxPosts
     /\ \E u \in Users : CreatePost(u, "find_candidate", SomeTitle, NULL)
  \/ /\ Quiet /\ next_id.cvs <= MaxCvs
     /\ \E file \in BOOLEAN : UploadCv(Applicant, file)
  \/ Quiet /\ \E p \in PostIds, c \in CvIds : ApplyStart(1, Applicant, p, c)
  \/ ApplyPostQuery(1)
  \/ ApplyCvQuery(1)
  \/ ApplyExistingQuery(1)
  \/ ApplyInsert(1)
  \/ Close(1)
  \/ Quiet /\ \E u \in Users, a \in AppIds, s \in Statuses : UpdateStatus(u, a, s)

Spec == Init /\ [][Next]_vars

(* Applying: posts of one company that expire as the clock runs, CVs       *)
(* switched on and off, apply requests of both candidates, applications    *)
(* reviewed by that company; the two clocks read the same instant, and run *)
(* on while a request awaits a query                                       *)
NextApply ==
  \/ \E d \in ClockSteps : InWindow(now + d) /\ Advance(d, 0)
  \/ /\ Quiet /\ next_id.posts <= MaxPosts
     /\ \E u \in Candidates \cup {Recruiter}, t \in PostTypes :
          CreatePost(u, t, SomeTitle, NULL)
  \/ /\ Quiet /\ next_id.cvs <= MaxCvs
     /\ \E u \in {Applicant} \cup Companies, file \in BOOLEAN : UploadCv(u, file)
  \/ Quiet /\ \E u \in Users, c \in CvIds : ToggleCv(u, c)
  \/ Quiet /\ \E u \in Candidates, p \in PostIds, c \in CvIds : ApplyStart(1, u, p, c)
  \/ ApplyPostQuery(1)
  \/ ApplyCvQuery(1)
  \/ ApplyExistingQuery(1)
  \/ ApplyInsert(1)
  \/ Close(1)
  \/ Quiet /\ \E a \in AppIds : UpdateStatus(Recruiter, a, "reviewed")

SpecApply == Init /\ [][NextApply]_vars

----------------------------------------------------------------------------
(* The feed: posts of both types, the follow graph of one viewer, the      *)
(* clock, its two readings the same; requests are served one at a time      *)

Viewer == 1
\* The viewer who follows authors, and one who follows nobody
FeedViewers == {Viewer, Applicant}
FeedPostIds == 1..(MaxFeedPosts + 1)
FeedLimits == 1..MaxFeedPosts
FeedPages == 1..(MaxFeedPosts + 1)
\* limit and page of the query string: those, and values that make LIMIT or
\* OFFSET negative
RequestLimits == FeedLimits \cup {-1, 0}
RequestPages == FeedPages \cup {0}

\* :userId of the follow routes: the users, an id of no user, text with
\* trailing characters, text that is no number, and text that parseInt or
\* the store reads as a number: white space of either, a sign, a prefix,
\* the least integer of 32 bits
FollowParams ==
  {UserIdParam(u) : u \in Users} \cup
  {<<"9">>, <<"2", "x">>, <<"1", "0">>, <<"x">>,
   <<" ", "1">>, <<"+", "1">>, <<"-", "2">>, <<"2", " ">>,
   <<"0", "x", "1">>, <<"0", "X", "1", "f">>, <<"0", "x">>,
   <<"\f", "1">>, <<"U+00A0", "1">>, <<"0", "b", "1">>, <<"1", "_", "0">>,
   <<"-", "2", "1", "4", "7", "4", "8", "3", "6", "4", "7">>,
   <<"-", "2", "1", "4", "7", "4", "8", "3", "6", "4", "8">>}

NextFeed ==
  \/ \E d \in ClockSteps : InWindow(now + d) /\ Advance(d, 0)
  \/ /\ Quiet /\ next_id.cvs <= MaxCvs
     /\ \E file \in BOOLEAN : UploadCv(Viewer, file)
  \/ /\ Quiet /\ next_id.posts <= MaxFeedPosts
     /\ \E u \in Users, t \in PostTypes :
          \E c \in {NULL} \cup {cv.id : cv \in {x \in cvs : x.user_id = u}} :
            CreatePost(u, t, SomeTitle, c)
  \/ /\ Quiet /\ next_id.follows <= MaxFollows
     /\ \E u \in Companies, pg \in PgVersions :
          FollowStart(1, Viewer, UserIdParam(u), pg)
  \/ FollowUserQuery(1)
  \/ FollowExistingQuery(1)
  \/ FollowInsert(1)
  \/ Close(1)
  \/ Quiet /\ \E u \in Companies, pg \in PgVersions :
       Unfollow(Viewer, UserIdParam(u), pg)
  \/ /\ Quiet
     /\ \E u \in FeedViewers, t \in PostTypes \cup {""} :
          \E p \in RequestPages, l \in RequestLimits : List(u, t, p, l)
  \/ Quiet /\ \E p \in FeedPostIds : GetPost(p)
  \/ Quiet /\ \E p \in posts : ApplyStart(1, Applicant, p.id, 1)
  \/ ApplyPostQuery(1)
  \/ ApplyCvQuery(1)

SpecFeed == Init /\ [][NextFeed]_vars

----------------------------------------------------------------------------
(* The post catalog: requests with their credential, posts created and     *)
(* updated with and without a CV; requests are served one at a time         *)

\* The values of attached_cv_id that name what is stored: none, or the id of
\* a CV
AttachableCvs == {NULL} \cup {c.id : c \in cvs}

\* The values of attached_cv_id a request may carry: those, and an id that
\* no CV has
RequestCvs == AttachableCvs \cup {next_id.cvs}

NextPosts ==
  \/ Quiet /\ \E token \in Tokens : Rejected(1, token)
  \/ /\ Quiet /\ next_id.cvs <= MaxCvs
     /\ \E token \in Tokens, file \in BOOLEAN : LET auth == authenticateToken(token) IN
          auth.code = 0 /\ auth.user \in Candidates /\ UploadCv(auth.user, file)
  \/ /\ Quiet /\ next_id.posts <= MaxFeedPosts
     /\ \E token \in Tokens, t \in PostTypes, c \in RequestCvs :
          LET auth == authenticateToken(token) IN
          auth.code = 0 /\ CreatePost(auth.user, t, SomeTitle, c)
  \/ /\ Quiet
     /\ \E token \in Tokens, p \in FeedPostIds, c \in RequestCvs :
          LET auth == authenticateToken(token) IN
          auth.code = 0 /\ UpdatePostStart(1, auth.user, p, SomeTitle, c)
  \/ UpdatePostCheckQuery(1)
  \/ UpdatePostUpdateQuery(1)
  \/ Close(1)

SpecPosts == Init /\ [][NextPosts]_vars

----------------------------------------------------------------------------
(* Posts created with any post_type value *)

\* post_type of the request body: the two types, another word, another
\* spelling
RequestPostTypes == PostTypes \cup {"internship", "Find_Job"}

NextPostTypes ==
  \/ /\ next_id.cvs <= MaxCvs
     /\ \E file \in BOOLEAN : UploadCv(Applicant, file)
  \/ /\ next_id.posts <= MaxFeedPosts
     /\ \E u \in Users, t \in RequestPostTypes, c \in RequestCvs :
          CreatePost(u, t, SomeTitle, c)
  \/ \E p \in FeedPostIds : GetPost(p)

SpecPostTypes == Init /\ [][NextPostTypes]_vars

----------------------------------------------------------------------------
(* Posts, CVs and applications with their deletions; requests are served   *)
(* one at a time, and a request with a refused credential runs no handler. *)
(* The companies update posts and list applications, the candidates apply. *)

NextCatalog ==
  \/ Quiet /\ \E token \in Tokens : Rejected(1, token)
  \/ /\ Quiet /\ next_id.cvs <= MaxCvs
     /\ \E file \in BOOLEAN : UploadCv(Applicant, file)
  \/ /\ Quiet /\ next_id.posts <= MaxPosts
     /\ \E u \in Users, t \in PostTypes, c \in RequestCvs : CreatePost(u, t, SomeTitle, c)
  \/ /\ Quiet
     /\ \E u \in Companies, p \in PostIds, c \in RequestCvs :
          UpdatePostStart(1, u, p, SomeTitle, c)
  \/ UpdatePostCheckQuery(1)
  \/ UpdatePostUpdateQuery(1)
  \/ Quiet /\ \E u \in Users, p \in PostIds : DeletePost(u, p)
  \/ Quiet /\ \E u \in Users, c \in CvIds : DeleteCv(u, c)
  \/ Quiet /\ \E u \in Candidates, p \in PostIds, c \in CvIds : ApplyStart(1, u, p, c)
  \/ ApplyPostQuery(1)
  \/ ApplyCvQuery(1)
  \/ ApplyExistingQuery(1)
  \/ ApplyInsert(1)
  \/ Quiet /\ \E u \in Users, a \in AppIds : UpdateStatus(u, a, "reviewed")
  \/ Quiet /\ \E u \in Companies, p \in PostIds : ListForPostStart(1, u, p)
  \/ ListForPostPostQuery(1)
  \/ ListForPostApplicationsQuery(1)
  \/ Close(1)
  \/ Quiet /\ \E u \in Users, c \in CvIds : ToggleCv(u, c)

SpecCatalog == Init /\ [][NextCatalog]_vars

----------------------------------------------------------------------------
(* The life of a post: created by a candidate or a company, updated with   *)
(* another title and deleted, while the clocks run to its expiry and on    *)
(* after it, the clock of the server process up to MaxSkew ms off the      *)
(* store's, and the candidate applies; requests are served one at a time,  *)
(* and the clocks run on while a request awaits a query                    *)

\* The instants of the store's clock: 0, and 10 days later up to
\* MaxSkew + 1 ms more
InLife(t) == t = 0 \/ (TenDays <= t /\ t <= TenDays + MaxSkew + 1)

NextPostLife ==
  \/ \E d \in ClockSteps, skew \in Skews : InLife(now + d) /\ Advance(d, skew)
  \/ /\ Quiet /\ next_id.cvs <= MaxCvs
     /\ \E file \in BOOLEAN : UploadCv(Applicant, file)
  \/ /\ Quiet /\ next_id.posts <= MaxPosts
     /\ \E u \in {Applicant, Recruiter}, t \in PostTypes, c \in RequestCvs :
          CreatePost(u, t, SomeTitle, c)
  \/ /\ Quiet
     /\ \E u \in {Applicant, Recruiter}, p \in PostIds, c \in RequestCvs :
          \E title \in Titles \ {SomeTitle} : UpdatePostStart(1, u, p, title, c)
  \/ UpdatePostCheckQuery(1)
  \/ UpdatePostUpdateQuery(1)
  \/ Quiet /\ \E u \in Users, p \in PostIds : DeletePost(u, p)
  \/ Quiet /\ \E p \in PostIds, c \in CvIds : ApplyStart(1, Applicant, p, c)
  \/ ApplyPostQuery(1)
  \/ ApplyCvQuery(1)
  \/ ApplyExistingQuery(1)
  \/ ApplyInsert(1)
  \/ Close(1)
  \/ Quiet /\ \E p \in PostIds : GetPost(p)

SpecPostLife == Init /\ [][NextPostLife]_vars

----------------------------------------------------------------------------
(* The frame of post update and delete: posts are created by a candidate   *)
(* or a company before the clock runs, then updated with another title and *)
(* deleted by every user while the candidate applies with the first CV;    *)
(* the two clocks read the same instant, and run on while a request awaits *)
(* a query; requests are served one at a time                              *)

NextPostFrame ==
  \/ \E d \in ClockSteps : InWindow(now + d) /\ Advance(d, 0)
  \/ /\ Quiet /\ next_id.cvs <= MaxCvs
     /\ \E file \in BOOLEAN : UploadCv(Applicant, file)
  \/ /\ Quiet /\ next_id.posts <= MaxPosts /\ now = 0
     /\ \E u \in {Applicant, Recruiter}, t \in PostTypes, c \in RequestCvs :
          CreatePost(u, t, SomeTitle, c)
  \/ /\ Quiet
     /\ \E u \in {Applicant, Recruiter}, p \in PostIds, c \in RequestCvs :
          \E title \in Titles \ {SomeTitle} : UpdatePostStart(1, u, p, title, c)
  \/ UpdatePostCheckQuery(1)
  \/ UpdatePostUpdateQuery(1)
  \/ Quiet /\ \E u \in Users, p \in PostIds : DeletePost(u, p)
  \/ Quiet /\ \E p \in PostIds : ApplyStart(1, Applicant, p, 1)
  \/ ApplyPostQuery(1)
  \/ ApplyCvQuery(1)
  \/ ApplyExistingQuery(1)
  \/ ApplyInsert(1)
  \/ Close(1)

SpecPostFrame == Init /\ [][NextPostFrame]_vars

----------------------------------------------------------------------------
(* The relationship graph: follow and unfollow requests served one at a    *)
(* time                                                                     *)

NextGraph ==
  \/ /\ Quiet /\ next_id.follows <= MaxEdges
     /\ \E u \in Users, t \in FollowParams, pg \in PgVersions :
          FollowStart(1, u, t, pg)
  \/ FollowUserQuery(1)
  \/ FollowExistingQuery(1)
  \/ FollowInsert(1)
  \/ Close(1)
  \/ Quiet /\ \E u \in Users, t \in FollowParams, pg \in PgVersions :
       Unfollow(u, t, pg)

SpecGraph == Init /\ [][NextGraph]_vars

----------------------------------------------------------------------------
(* Concurrent requests: the requests of the slots interleave between their *)
(* queries                                                                  *)

\* :userId of the racing requests: the users, other spellings of one of
\* them, an id of no user and text that is no number
FollowRaceParams ==
  {UserIdParam(u) : u \in Users} \cup
  {<<"+", "3">>, <<"0", "x", "3">>, <<"9">>, <<"x">>}

(* Two concurrent requests of one follower *)
NextFollowRace ==
  \/ \E s \in Slots, t \in FollowRaceParams, pg \in PgVersions :
       FollowStart(s, Viewer, t, pg)
  \/ \E s \in Slots : FollowUserQuery(s)
  \/ \E s \in Slots : FollowExistingQuery(s)
  \/ \E s \in Slots : FollowInsert(s)

SpecFollowRace == Init /\ [][NextFollowRace]_vars

(* A list request while the viewer's follow and unfollow requests run *)
NextFeedRace ==
  \/ /\ next_id.posts <= MaxFeedPosts
     /\ \E u \in Companies : CreatePost(u, "find_candidate", SomeTitle, NULL)
  \/ /\ next_id.follows <= MaxFollows
     /\ \E u \in Companies, pg \in PgVersions :
          FollowStart(1, Viewer, UserIdParam(u), pg)
  \/ FollowUserQuery(1)
  \/ FollowExistingQuery(1)
  \/ FollowInsert(1)
  \/ \E u \in Companies, pg \in PgVersions : Unfollow(Viewer, UserIdParam(u), pg)
  \/ \E v \in FeedViewers, pg \in RequestPages, l \in RequestLimits :
       ListStart(2, v, "", pg, l)
  \/ ListQuery(2)

SpecFeedRace == Init /\ [][NextFeedRace]_vars

(* Two concurrent requests of one candidate applying *)
NextApplyRace ==
  \/ /\ next_id.posts <= MaxPosts
     /\ \E u \in Companies : CreatePost(u, "find_candidate", SomeTitle, NULL)
  \/ /\ next_id.cvs <= MaxCvs
     /\ UploadCv(Applicant, TRUE)
  \/ \E s \in Slots, p \in 1..MaxPosts, c \in 1..MaxCvs : ApplyStart(s, Applicant, p, c)
  \/ \E s \in Slots : ApplyPostQuery(s)
  \/ \E s \in Slots : ApplyCvQuery(s)
  \/ \E s \in Slots : ApplyExistingQuery(s)
  \/ \E s \in Slots : ApplyInsert(s)

SpecApplyRace == Init /\ [][NextApplyRace]_vars

(* Apply requests of one candidate while that candidate toggles the CV *)
NextToggleRace ==
  \/ /\ next_id.posts <= MaxPosts
     /\ \E u \in Companies : CreatePost(u, "find_candidate", SomeTitle, NULL)
  \/ /\ next_id.cvs <= MaxCvs
     /\ UploadCv(Applicant, TRUE)
  \/ \E c \in 1..MaxCvs : ToggleCv(Applicant, c)
  \/ \E s \in Slots, p \in 1..MaxPosts, c \in 1..MaxCvs : ApplyStart(s, Applicant, p, c)
  \/ \E s \in Slots : ApplyPostQuery(s)
  \/ \E s \in Slots : ApplyCvQuery(s)
  \/ \E s \in Slots : ApplyExistingQuery(s)
  \/ \E s \in Slots : ApplyInsert(s)

SpecToggleRace == Init /\ [][NextToggleRace]_vars

(* Two concurrent requests updating the status of applications; the        *)
(* applications are made by apply requests served while no other is under  *)
(* way                                                                      *)
NextStatusRace ==
  \/ /\ next_id.posts <= MaxPosts
     /\ \E u \in Companies : CreatePost(u, "find_candidate", SomeTitle, NULL)
  \/ /\ next_id.cvs <= MaxCvs
     /\ UploadCv(Applicant, TRUE)
  \/ Quiet /\ \E p \in 1..MaxPosts, c \in 1..MaxCvs : ApplyStart(1, Applicant, p, c)
  \/ ApplyPostQuery(1)
  \/ ApplyCvQuery(1)
  \/ ApplyExistingQuery(1)
  \/ ApplyInsert(1)
  \/ \E s \in Slots : Close(s)
  \/ \E s \in Slots, u \in Companies, a \in 1..MaxPosts, st \in validStatuses :
       UpdateStatusStart(s, u, a, st)
  \/ \E s \in Slots : UpdateStatusQuery(s)

SpecStatusRace == Init /\ [][NextStatusRace]_vars

(* A request to update a post, a request to list its applications and a    *)
(* request to apply to it while the owner deletes the post and the         *)
(* candidate the CV: the UPDATE may match no row, the list may be read for *)
(* a post that is gone, and the INSERT may reference a row that is gone    *)
NextPostRace ==
  \/ /\ next_id.posts <= MaxPosts
     /\ \E u \in Companies : CreatePost(u, "find_candidate", SomeTitle, NULL)
  \/ /\ next_id.cvs <= MaxCvs
     /\ UploadCv(Applicant, TRUE)
  \/ \E p \in 1..MaxPosts, c \in 1..MaxCvs : ApplyStart(2, Applicant, p, c)
  \/ ApplyPostQuery(2)
  \/ ApplyCvQuery(2)
  \/ ApplyExistingQuery(2)
  \/ ApplyInsert(2)
  \/ \E c \in 1..MaxCvs : DeleteCv(Applicant, c)
  \/ \E u \in Companies, p \in 1..MaxPosts, title \in Titles :
       UpdatePostStart(1, u, p, title, NULL)
  \/ UpdatePostCheckQuery(1)
  \/ UpdatePostUpdateQuery(1)
  \/ \E u \in Companies, p \in 1..MaxPosts : ListForPostStart(2, u, p)
  \/ ListForPostPostQuery(2)
  \/ ListForPostApplicationsQuery(2)
  \/ \E u \in Companies, p \in 1..MaxPosts : DeletePost(u, p)

SpecPostRace == Init /\ [][NextPostRace]_vars

----------------------------------------------------------------------------
(* Properties of the application workflow *)

Terminal == {"accepted", "rejected"}

AllowedNext(status) ==
  IF status = "pending" THEN {"reviewed", "accepted", "rejected"}
  ELSE IF status = "reviewed" THEN {"accepted", "rejected"}
  ELSE {}

Owns(actor, a) == \E p \in posts : p.id = a.post_id /\ p.user_id = actor

\* The step in which the request of slot s, of handler op, is answered
Answers(s, op) ==
  reqs'[s] # reqs[s] /\ reqs'[s].pc = "done" /\ reqs'[s].op = op

\* Served with no other request between its queries, an apply request is
\* answered as ApplyResultAt says for the instant its expiry check read, and
\* writes what it says, however long the clocks have run since
SerialApply ==
  [][\A s \in Slots : Answers(s, "apply") =>
       LET r == ApplyResultAt(reqs'[s].actor, reqs'[s].id, reqs'[s].cv,
                              reqs'[s].at)
       IN
       /\ reqs'[s].code = r.code /\ reqs'[s].msg = r.msg
       /\ applications' = r.applications /\ next_id' = r.next_id]_vars

\* The same for a request to update a post, with UpdatePostResult
SerialUpdatePost ==
  [][\A s \in Slots : Answers(s, "updatePost") =>
       LET r == UpdatePostResult(reqs'[s].actor, reqs'[s].id, reqs'[s].title,
                                 reqs'[s].cv)
       IN
       /\ reqs'[s].code = r.code /\ reqs'[s].msg = r.msg
       /\ reqs'[s].found = r.found /\ posts' = r.posts]_vars

\* C1: once an application is accepted or rejected, no step changes its
\* status: every status update naming another status leaves it as it is.
C1_TerminalStatusIsFinal ==
  [][\A a \in applications : a.status \in Terminal =>
       \A b \in applications' : b.id = a.id => b.status = a.status]_vars

\* C2: on a pending application a status update to reviewed, accepted or
\* rejected succeeds for the owner of the application's post and changes that
\* status only; for every other actor, whatever the current and the requested
\* status, it answers 404 and changes nothing.
C2_OnlyOwnerUpdatesStatus ==
  \A a \in applications, actor \in Users, st \in validStatuses :
    LET r == UpdateStatusResult(actor, a.id, st) IN
    IF Owns(actor, a)
    THEN (a.status = "pending" /\ st # "pending") =>
           /\ r.code = 200
           /\ r.applications = (applications \ {a}) \cup {[a EXCEPT !.status = st]}
    ELSE /\ r.code = 404
         /\ r.msg = "Application not found or not authorized"
         /\ r.applications = applications

\* An update by the owner has acted (the application is reviewed) and a
\* company that does not own the post exists.
C2_Witness ==
  \E a \in applications, u \in Companies :
    a.status = "reviewed" /\ ~Owns(u, a) /\ \E v \in Companies : Owns(v, a)

\* C22: a status update with a value outside pending, reviewed, accepted,
\* rejected (another word, another spelling, no value) is answered 400
\* "Invalid status" for every actor and every application id, stored or
\* not, and leaves the applications as they are.
C22_InvalidStatusIsRefused ==
  \A u \in Users, a \in AppIds, st \in Statuses :
    st \notin {"pending", "reviewed", "accepted", "rejected"} =>
      LET r == UpdateStatusResult(u, a, st) IN
      /\ r.code = 400 /\ r.msg = "Invalid status"
      /\ r.applications = applications

\* The owner of the post has reviewed an application and then asks for a
\* status outside the four.
C22_Witness ==
  \E a \in applications, u \in Companies :
    /\ a.status = "reviewed" /\ Owns(u, a)
    /\ UpdateStatusResult(u, a.id, "withdrawn").code = 400

\* C3: a step changes the status of an application only along the allowed
\* transitions pending -> {reviewed, accepted, rejected} and
\* reviewed -> {accepted, rejected}; no application returns to pending.
C3_OnlyAllowedTransitions ==
  [][\A a \in applications : \A b \in applications' :
       (b.id = a.id /\ b.status # a.status) => b.status \in AllowedNext(a.status)]_vars

\* C4: with requests served one at a time, after a candidate has applied to a
\* post the pair (post, applicant) has exactly one application; a successful
\* apply adds one application, in status pending; applying again to the same
\* post creates nothing, and with the post still open and the CV usable it
\* answers 400 "Already applied to this post".  The apply requests served
\* are answered as ApplyResultAt says for the instant their expiry check read.
C4_SecondApplyIsDuplicate ==
  /\ [](/\ \A a, b \in applications :
             (a.post_id = b.post_id /\ a.applicant_id = b.applicant_id) => a = b
        /\ \A u \in Users, p \in PostIds, c \in CvIds :
             LET r == ApplyResult(u, p, c) IN
             r.code = 201 =>
               /\ ~ \E a \in applications : a.post_id = p /\ a.applicant_id = u
               /\ \E a \in r.applications :
                    /\ a.post_id = p /\ a.applicant_id = u /\ a.status = "pending"
                    /\ r.applications = applications \cup {a}
        /\ \A a \in applications, c \in CvIds :
             LET r == ApplyResult(a.applicant_id, a.post_id, c) IN
             /\ r.code # 201
             /\ r.applications = applications
             /\ ( /\ \E p \in posts : p.id = a.post_id /\ ~isExpired(p, Date_now)
                  /\ \E cv \in cvs :
                       cv.id = c /\ cv.user_id = a.applicant_id /\ cv.is_active )
                => (r.code = 400 /\ r.msg = "Already applied to this post"))
  /\ SerialApply

\* The first apply has created a pending application, and the second request
\* of the same candidate for the same post, with the same CV, has been
\* answered 400 "Already applied to this post".
C4_Witness ==
  \E a \in applications : \E s \in Slots :
    /\ a.status = "pending"
    /\ reqs[s].op = "apply" /\ reqs[s].pc = "done"
    /\ reqs[s].actor = a.applicant_id /\ reqs[s].id = a.post_id
    /\ reqs[s].cv = a.cv_id
    /\ reqs[s].code = 400 /\ reqs[s].msg = "Already applied to this post"

\* C7: apply creates no application when the post is expired (as the reads of
\* the post report it) or when the CV is inactive, absent or owned by someone
\* else; a successful apply adds exactly one application, in status pending.
\* The apply requests served, one at a time, are answered as ApplyResultAt
\* says for the instant their expiry check read.
C7_ApplyChecksPostAndCv ==
  /\ [](\A u \in Users, p \in PostIds, c \in CvIds :
          LET r == ApplyResult(u, p, c)
              expired == \E row \in GetPostResult(p).rows : row.is_expired
              usable == \E cv \in cvs : cv.id = c /\ cv.user_id = u /\ cv.is_active
          IN
          /\ (expired \/ ~usable) =>
               (r.code \notin {200, 201} /\ r.applications = applications)
          /\ r.code = 201 =>
               \E a \in r.applications :
                 /\ a \notin applications
                 /\ a.status = "pending" /\ a.post_id = p /\ a.applicant_id = u
                 /\ a.cv_id = c
                 /\ r.applications = applications \cup {a})
  /\ SerialApply

\* An apply has succeeded; since then the post has expired and the CV has been
\* switched off, and a further apply request for the post has been refused as
\* the post is expired, while another candidate owns no CV.
C7_Witness ==
  \E a \in applications :
    /\ a.status = "pending"
    /\ \E s \in Slots :
         /\ reqs[s].op = "apply" /\ reqs[s].id = a.post_id /\ reqs[s].code = 400
         /\ reqs[s].msg = "This job post has expired and no longer accepts applications"
    /\ \E row \in GetPostResult(a.post_id).rows : row.is_expired
    /\ \E cv \in cvs : cv.id = a.cv_id /\ ~cv.is_active
    /\ \E u \in Candidates : \A cv \in cvs : cv.user_id # u

----------------------------------------------------------------------------
(* Properties of the post catalog *)

Matches(account_type, post_type) ==
  \/ account_type = "candidate" /\ post_type = "find_job"
  \/ account_type = "company" /\ post_type = "find_candidate"

\* C11: of the four combinations of account type and post type, create
\* succeeds only for (candidate, find_job) and (company, find_candidate), and
\* it does succeed for these when a find_job post carries a CV; a candidate
\* creating find_candidate and a company creating find_job are answered 400
\* and no post is stored; every stored post matches its author's account.
C11_CreateMatchesAccountType ==
  /\ \A u \in Users, t \in PostTypes, c \in AttachableCvs :
       LET r == CreatePostResult(u, t, SomeTitle, c) IN
       IF Matches(AccountType(u), t)
       THEN (t = "find_job" => c # NULL) =>
              /\ r.code = 201
              /\ \E p \in r.posts :
                   /\ p \notin posts /\ p.user_id = u /\ p.post_type = t
                   /\ r.posts = posts \cup {p}
       ELSE r.code = 400 /\ r.posts = posts /\ r.next_id = next_id
  /\ \A p \in posts : Matches(AccountType(p.user_id), p.post_type)

\* A candidate has created a find_job post and a company a find_candidate
\* post.
C11_Witness ==
  \E p, q \in posts :
    /\ p.post_type = "find_job" /\ p.user_id \in Candidates
    /\ q.post_type = "find_candidate" /\ q.user_id \in Companies

\* C12: every stored find_job post has an attached CV; create of a find_job
\* post without a CV stores nothing, and a candidate is answered 400 "CV is
\* required"; update of a find_job post without a CV leaves the posts
\* unchanged, and its owner is answered 400 "CV is required".  The update
\* requests served, one at a time, are answered as UpdatePostResult says.
C12_FindJobHasCv ==
  /\ [](/\ \A p \in posts : p.post_type = "find_job" => p.attached_cv_id # NULL
        /\ \A u \in Users :
             LET r == CreatePostResult(u, "find_job", SomeTitle, NULL) IN
             /\ r.code = 400 /\ r.posts = posts
             /\ u \in Candidates => r.msg = "CV is required for job seeking posts"
        /\ \A u \in Users : \A p \in posts : p.post_type = "find_job" =>
             LET r == UpdatePostResult(u, p.id, SomeTitle, NULL) IN
             /\ r.code \in {400, 404} /\ r.posts = posts
             /\ u = p.user_id =>
                  (r.code = 400 /\ r.msg = "CV is required for job seeking posts")
             /\ \A c \in AttachableCvs \ {NULL} :
                  \A q \in UpdatePostResult(u, p.id, SomeTitle, c).posts :
                    q.post_type = "find_job" => q.attached_cv_id # NULL)
  /\ SerialUpdatePost

\* Two find_job posts are stored, each with its CV, and the request of the
\* owner of one to update it without a CV has been answered 400.
C12_Witness ==
  \E p, q \in posts : \E s \in Slots :
    /\ p # q
    /\ p.post_type = "find_job" /\ p.attached_cv_id # NULL
    /\ q.post_type = "find_job" /\ q.attached_cv_id # NULL
    /\ reqs[s].op = "updatePost" /\ reqs[s].pc = "done"
    /\ reqs[s].actor = p.user_id /\ reqs[s].id = p.id /\ reqs[s].cv = NULL
    /\ reqs[s].code = 400 /\ reqs[s].msg = "CV is required for job seeking posts"

\* C26: every stored post has post_type find_job or find_candidate; create
\* with any other value is answered 400 by the handler and stores nothing.
C26_PostTypeInDomain ==
  /\ \A p \in posts : p.post_type \in {"find_job", "find_candidate"}
  /\ \A u \in Users, c \in AttachableCvs :
       \A t \in RequestPostTypes \ {"find_job", "find_candidate"} :
         \A r \in CreatePostResults(u, t, SomeTitle, c) :
           r.code = 400 /\ r.posts = posts

\* C13: every stored find_candidate post is authored by a company and has no
\* attached CV.
C13_FindCandidateHasNoCv ==
  \A p \in posts : p.post_type = "find_candidate" =>
    (p.user_id \in Companies /\ p.attached_cv_id = NULL)

\* C20: a request with a missing or an invalid credential (no token, a token
\* that does not verify, a token of a user that no longer exists) is
\* answered 401 by the middleware.
C20_BadCredentialIs401 ==
  /\ \A token \in Tokens :
       (~token.present \/ ~token.verifies \/ token.userId \notin Users) <=>
         authenticateToken(token).code # 0
  /\ \A s \in Slots : reqs[s].op = "authenticateToken" => reqs[s].code = 401

\* C23: update and delete of a post by an actor who does not own it are
\* answered 404 and leave the posts (and the applications) as they are; an
\* update that succeeds is the owner's, writes title, attached CV and
\* updated_at of that post, and leaves its created_at, post_type and owner,
\* and every other post, as they were.  The update requests served, one at a
\* time, are answered as UpdatePostResult says.
C23_UpdateAndDeleteFrame ==
  /\ [](/\ \A u \in Users : \A p \in posts :
             \A title \in Titles, c \in AttachableCvs :
               LET r == UpdatePostResult(u, p.id, title, c) IN
               /\ u # p.user_id => (r.code = 404 /\ r.posts = posts)
               /\ r.code = 200 =>
                    /\ u = p.user_id
                    /\ \E q \in r.posts :
                         /\ q = [p EXCEPT !.title = q.title,
                                          !.attached_cv_id = q.attached_cv_id,
                                          !.updated_at = q.updated_at]
                         /\ q.created_at = p.created_at /\ q.post_type = p.post_type
                         /\ q.user_id = p.user_id
                         /\ q.title = title /\ q.attached_cv_id = c
                         /\ q.updated_at = now
                         /\ r.posts \ {q} = posts \ {p}
        /\ \A u \in Users : \A p \in posts : u # p.user_id =>
             \A r \in DeletePostResults(u, p.id) :
               r.code = 404 /\ r.posts = posts /\ r.applications = applications)
  /\ SerialUpdatePost

\* The owner has updated a post after its creation, giving it another title,
\* and the request of another user to update it has been answered 404.
C23_Witness ==
  \E p \in posts : \E s \in Slots :
    /\ p.updated_at > p.created_at /\ p.title # SomeTitle
    /\ reqs[s].op = "updatePost" /\ reqs[s].id = p.id
    /\ reqs[s].actor # p.user_id /\ reqs[s].code = 404

\* C24: a find_candidate post that is expired, as the store computes the flag
\* of its reads, is expired after every step, whether the clocks advance or a
\* handler runs (an update by its owner included), as long as it is stored;
\* while it is expired its reads report it expired and no apply to it creates
\* an application, whatever the clock of the server process reads, and no
\* step stores an application on a post expired at the instant of the INSERT.
\* The apply requests served, one at a time, are answered as ApplyResultAt
\* says.
C24_ExpiredStaysExpired ==
  /\ [][\A p \in posts : is_expired(p, now) =>
          \A q \in posts' : q.id = p.id => is_expired(q, now')]_vars
  /\ [](\A p \in posts : is_expired(p, now) =>
          /\ \A row \in GetPostResult(p.id).rows : row.is_expired
          /\ \A u \in Users, c \in CvIds :
               LET r == ApplyResult(u, p.id, c) IN
               r.code # 201 /\ r.applications = applications)
  /\ [][\A a \in applications' \ applications : \A p \in posts :
          p.id = a.post_id => ~is_expired(p, now')]_vars
  /\ SerialApply

\* The part of a response a caller sees when a request is refused
Outcome(r) == <<r.code, r.msg>>

\* C17: for post update, post delete, updateStatus and listForPost, a request
\* by an actor who does not own an existing resource is answered 404 with the
\* same message as the same request for a resource that does not exist; so
\* is every such request to list the applications of a post that has been
\* served.
C17_NonOwnerSeesNotFound ==
  /\ \A s \in Slots :
       ( /\ reqs[s].op = "listForPost" /\ reqs[s].pc = "done"
         /\ \E p \in posts : p.id = reqs[s].id /\ p.user_id # reqs[s].actor )
       => reqs[s].code = 404
  /\ \A u \in Users : \A p \in posts : u # p.user_id =>
       LET absent == next_id.posts IN
       /\ \A c \in AttachableCvs :
            /\ UpdatePostResult(u, p.id, SomeTitle, c).code = 404
            /\ Outcome(UpdatePostResult(u, p.id, SomeTitle, c)) =
                 Outcome(UpdatePostResult(u, absent, SomeTitle, c))
       /\ \A r \in DeletePostResults(u, p.id), q \in DeletePostResults(u, absent) :
            r.code = 404 /\ Outcome(r) = Outcome(q)
       /\ ListForPostResult(u, p.id).code = 404
       /\ Outcome(ListForPostResult(u, p.id)) = Outcome(ListForPostResult(u, absent))
  /\ \A u \in Users : \A a \in applications : ~Owns(u, a) =>
       \A st \in validStatuses :
         /\ UpdateStatusResult(u, a.id, st).code = 404
         /\ Outcome(UpdateStatusResult(u, a.id, st)) =
              Outcome(UpdateStatusResult(u, next_id.applications, st))

\* C19: every stored application references a stored post of type
\* find_candidate, an applicant whose account is a candidate's, and a stored
\* CV owned by that applicant.
C19_ApplicationReferences ==
  \A a \in applications :
    /\ \E p \in posts : p.id = a.post_id /\ p.post_type = "find_candidate"
    /\ a.applicant_id \in Users /\ AccountType(a.applicant_id) = "candidate"
    /\ \E c \in cvs : c.id = a.cv_id /\ c.user_id = a.applicant_id

\* An application is stored whose post its owner has updated to carry the
\* applicant's CV, while another candidate holds no CV.
C19_Witness ==
  \E a \in applications : \E p \in posts :
    /\ p.id = a.post_id /\ p.attached_cv_id = a.cv_id
    /\ a.status = "reviewed"
    /\ \E u \in Candidates : u # a.applicant_id

----------------------------------------------------------------------------
(* Properties of the relationship graph *)

Edges(rows) == {<<f.follower_id, f.following_id>> : f \in rows}

\* Served with no other request between its queries, a follow request is
\* answered as FollowResult says, and writes what it says
SerialFollow ==
  [][\A s \in Slots : Answers(s, "follow") =>
       LET r == FollowResult(reqs'[s].actor, reqs'[s].text, reqs'[s].pg) IN
       /\ reqs'[s].code = r.code /\ reqs'[s].msg = r.msg
       /\ follows' = r.follows /\ next_id' = r.next_id]_vars

\* The user the store reads the parameter as, 0 when it reads none
Target(t, pg) == PgInteger(t, pg).n

\* C14: with requests served one at a time, the follow relation holds no
\* self-edge and at most one edge per (follower, target); no follow request
\* whose target is the follower has been answered with success; a follow
\* request received when no other is under way adds nothing and leaves the
\* graph as it is when the edge exists or when the target is no user (404
\* when the parameter is the id of no user), and when it succeeds it adds
\* exactly the edge asked for.
C14_FollowKeepsGraphSimple ==
  /\ \A f \in follows : f.follower_id # f.following_id
  /\ \A f, g \in follows :
       (f.follower_id = g.follower_id /\ f.following_id = g.following_id)
         => f = g
  /\ \A s \in Slots :
       ( /\ reqs[s].op = "follow" /\ reqs[s].pc = "done"
         /\ Target(reqs[s].text, reqs[s].pg) = reqs[s].actor )
       => reqs[s].code \notin {200, 201}
  /\ Quiet =>
       \A u \in Users, t \in FollowParams, pg \in PgVersions :
         LET r == FollowResult(u, t, pg)
             target == Target(t, pg)
         IN
         /\ (<<u, target>> \in Edges(follows) \/ target \notin Users) =>
              /\ r.code \notin {200, 201}
              /\ r.follows = follows /\ r.next_id = next_id
         /\ (PgInteger(t, pg) # InvalidInteger /\ target \notin Users /\
             Number(u) # parseInt(t)) => r.code = 404
         /\ r.code = 201 =>
              /\ Edges(r.follows) = Edges(follows) \cup {<<u, target>>}
              /\ Cardinality(r.follows) = Cardinality(follows) + 1

\* C16: an unfollow request received when no other is under way answers 404
\* and leaves the graph as it is when the edge (follower, target) does not
\* exist; when it exists unfollow removes that edge and no other; unfollow
\* after a successful follow gives back the graph from before the follow.
\* The follow requests served, one at a time, are answered as FollowResult
\* says.
C16_UnfollowRemovesOneEdge ==
  /\ [](Quiet =>
        /\ \A u \in Users, t \in FollowParams, pg \in PgVersions :
             LET r == UnfollowResult(u, t, pg)
                 target == Target(t, pg)
             IN
             IF <<u, target>> \in Edges(follows)
             THEN /\ r.code = 200
                  /\ Edges(r.follows) = Edges(follows) \ {<<u, target>>}
                  /\ Cardinality(r.follows) = Cardinality(follows) - 1
             ELSE /\ r.follows = follows
                  /\ r.code = IF PgInteger(t, pg) = InvalidInteger THEN 500 ELSE 404
        /\ \A u \in Users, t \in FollowParams, pg \in PgVersions :
             LET r == FollowResult(u, t, pg) IN
             r.code = 201 =>
               LET back == UnfollowFrom(r.follows, u, t, pg) IN
               back.code = 200 /\ back.follows = follows)
  /\ SerialFollow

\* Two follows have succeeded and an unfollow has removed the second edge,
\* leaving the first in place.
C16_Witness ==
  /\ next_id.follows = 3
  /\ Cardinality(follows) = 1
  /\ \E f \in follows : f.id = 1

\* C18: a step that switches a CV from active to inactive leaves the
\* applications as they are (the same rows, with their statuses and CV
\* references); while a CV is inactive no apply with it creates an
\* application, and an apply that reaches the CV check is answered 400.  The
\* apply requests served, one at a time, are answered as ApplyResultAt says
\* for the instant their expiry check read.
C18_ToggleKeepsApplications ==
  /\ [][(\E c \in cvs : \E d \in cvs' : d.id = c.id /\ c.is_active /\ ~d.is_active)
          => applications' = applications]_vars
  /\ [](\A c \in cvs : ~c.is_active =>
          \A u \in Users, p \in PostIds :
            LET r == ApplyResult(u, p, c.id) IN
            /\ r.code # 201 /\ r.applications = applications
            /\ (\E q \in posts : /\ q.id = p /\ q.post_type = "find_candidate"
                                 /\ ~isExpired(q, Date_now)) =>
                 (u \in Candidates => r.msg = "CV not found or not active"))
  /\ SerialApply

\* A CV that an application references has been switched off while the post
\* is still open, the application is as it was, and an apply request with
\* that CV has been answered 400 "CV not found or not active".
C18_Witness ==
  \E a \in applications :
    /\ \E c \in cvs : c.id = a.cv_id /\ ~c.is_active
    /\ \E q \in posts : q.id = a.post_id /\ ~isExpired(q, Date_now)
    /\ a.status = "reviewed"
    /\ \E s \in Slots :
         /\ reqs[s].op = "apply" /\ reqs[s].cv = a.cv_id
         /\ reqs[s].code = 400 /\ reqs[s].msg = "CV not found or not active"

----------------------------------------------------------------------------
(* Properties of concurrent requests *)

\* C15: whatever the interleaving of two follow requests of one follower for
\* one target, the store never holds two edges with the same
\* (follower_id, following_id), and at most one of the two requests answers
\* 201.
C15_NoDuplicateFollow ==
  /\ \A f, g \in follows :
       (f.follower_id = g.follower_id /\ f.following_id = g.following_id)
         => f.id = g.id
  /\ \A s, t \in Slots :
       ( /\ s # t
         /\ reqs[s].op = "follow" /\ reqs[t].op = "follow"
         /\ reqs[s].actor = reqs[t].actor
         /\ Target(reqs[s].text, reqs[s].pg) = Target(reqs[t].text, reqs[t].pg)
         /\ reqs[s].code = 201 )
       => reqs[t].code # 201

\* Both requests passed the check for an existing edge; one inserted, the
\* other was refused by the store.
C15_Witness ==
  \E s, t \in Slots :
    /\ reqs[s].op = "follow" /\ reqs[t].op = "follow"
    /\ reqs[s].actor = reqs[t].actor
    /\ Target(reqs[s].text, reqs[s].pg) = Target(reqs[t].text, reqs[t].pg)
    /\ reqs[s].code = 201 /\ reqs[t].code = 500

\* C5: whatever the interleaving of two apply requests of one candidate for
\* one post, the store never holds two applications with the same
\* (post_id, applicant_id), and at most one of the two requests answers 201.
C5_NoDuplicateApplication ==
  /\ \A a, b \in applications :
       (a.post_id = b.post_id /\ a.applicant_id = b.applicant_id) => a.id = b.id
  /\ \A s, t \in Slots :
       ( /\ s # t
         /\ reqs[s].op = "apply" /\ reqs[t].op = "apply"
         /\ reqs[s].actor = reqs[t].actor /\ reqs[s].id = reqs[t].id
         /\ reqs[s].code = 201 )
       => reqs[t].code # 201

\* Both requests passed the check for an existing application; one inserted,
\* the other was refused by the store.
C5_Witness ==
  \E s, t \in Slots :
    /\ reqs[s].op = "apply" /\ reqs[t].op = "apply"
    /\ reqs[s].actor = reqs[t].actor /\ reqs[s].id = reqs[t].id
    /\ reqs[s].code = 201 /\ reqs[t].code = 500

\* C21: whatever the interleaving of an apply request with CV toggles of the
\* same candidate, a step that inserts an application finds the CV the
\* application references active.
C21_InsertOnlyWithActiveCv ==
  [][\A a \in applications' \ applications :
       \E c \in cvs : c.id = a.cv_id /\ c.user_id = a.applicant_id /\ c.is_active]_vars

\* C6: of two status updates received while the application was pending, one
\* to accepted and one to rejected, at most one succeeds.
C6_RaceHasOneWinner ==
  \A s, t \in Slots :
    ( /\ s # t
      /\ reqs[s].op = "updateStatus" /\ reqs[t].op = "updateStatus"
      /\ reqs[s].id = reqs[t].id
      /\ reqs[s].seen = "pending" /\ reqs[t].seen = "pending"
      /\ reqs[s].status \in Terminal /\ reqs[t].status \in Terminal
      /\ reqs[s].status # reqs[t].status
      /\ reqs[s].pc = "done" /\ reqs[t].pc = "done" )
    => ~(reqs[s].code = 200 /\ reqs[t].code = 200)

----------------------------------------------------------------------------
(* Properties of the feed.  A result of GET /posts is a page                *)
(* LimitOffset(feed, limit, offset) of one of SortedFeeds(viewer, type).   *)

FeedTypes == PostTypes \cup {""}

Age(row) == now - row.created_at

Follows(viewer, author) ==
  \E f \in follows : f.follower_id = viewer /\ f.following_id = author

\* C8 as stated: the expiration flag of the feed, of a single-post read and of
\* the apply check, computed on the store whenever a request can be received
\* and as answered to the apply requests served, is true exactly for
\* find_candidate posts aged 10 days or more.
C8_ExpiredFromTenDays ==
  /\ Quiet =>
       /\ \A v \in FeedViewers, t \in FeedTypes : \A feed \in SortedFeeds(v, t) :
            \A pg \in FeedPages, l \in FeedLimits :
              LET res == LimitOffset(feed, l, (pg - 1) * l) IN
              \A i \in DOMAIN res :
                   res[i].is_expired <=>
                     (res[i].post_type = "find_candidate" /\ Age(res[i]) >= TenDays)
       /\ \A p \in FeedPostIds : \A row \in GetPostResult(p).rows :
            row.is_expired <=> (row.post_type = "find_candidate" /\ Age(row) >= TenDays)
       /\ \A u \in Candidates, c \in CvIds : \A p \in posts :
            p.post_type = "find_candidate" =>
              ((ApplyResult(u, p.id, c).msg =
                  "This job post has expired and no longer accepts applications")
               <=> Age(p) >= TenDays)
  /\ \A s \in Slots : \A p \in posts :
       ( /\ reqs[s].op = "apply" /\ reqs[s].pc = "done"
         /\ p.id = reqs[s].id /\ p.post_type = "find_candidate" )
       => ((reqs[s].msg =
              "This job post has expired and no longer accepts applications")
           <=> Age(p) >= TenDays)

ExpirationBucket(row) == IF row.is_expired THEN 1 ELSE 0
FollowBucket(viewer, row) == IF Follows(viewer, row.user_id) THEN 0 ELSE 1

\* C9: in every feed result (the feed is read when no other request is being
\* served), of two adjacent posts A before B, A's
\* (expiration bucket, follow bucket) is lexicographically at most B's, and
\* with equal buckets A is not older than B; no expired post comes before a
\* post that is not expired, whoever is followed.
C9_FeedIsOrdered ==
  Quiet => \A v \in FeedViewers, t \in FeedTypes : \A feed \in SortedFeeds(v, t) :
    \A pg \in FeedPages, l \in FeedLimits :
      LET res == LimitOffset(feed, l, (pg - 1) * l) IN
      /\ \A i \in DOMAIN res : i < Len(res) =>
           LET A == res[i]
               B == res[i + 1]
           IN
           \/ ExpirationBucket(A) < ExpirationBucket(B)
           \/ /\ ExpirationBucket(A) = ExpirationBucket(B)
              /\ FollowBucket(v, A) < FollowBucket(v, B)
           \/ /\ ExpirationBucket(A) = ExpirationBucket(B)
              /\ FollowBucket(v, A) = FollowBucket(v, B)
              /\ A.created_at >= B.created_at
      /\ \A i, j \in DOMAIN res :
           (i < j /\ res[i].is_expired) => res[j].is_expired

\* The viewer's feed ranks a post of an author the viewer does not follow,
\* not expired, before an expired post of a followed author.
C9_Witness ==
  Quiet /\ \E res \in ListResults(Viewer, "", 1, MaxFeedPosts) :
    /\ Len(res) >= 2
    /\ ~res[1].is_expired /\ ~Follows(Viewer, res[1].user_id)
    /\ res[2].is_expired /\ Follows(Viewer, res[2].user_id)

\* C10: for one store state, viewer, clock and limit the feed order is
\* determined, and the pages hold every matching post once: a page has one
\* possible result and no post is on two pages.
C10_PagesPartitionFeed ==
  \A v \in FeedViewers, t \in FeedTypes, l \in FeedLimits :
    /\ \A pg \in FeedPages : Cardinality(ListResults(v, t, pg, l)) = 1
    /\ \A pg1, pg2 \in FeedPages : pg1 < pg2 =>
         \A r1 \in ListResults(v, t, pg1, l), r2 \in ListResults(v, t, pg2, l) :
           \A i \in DOMAIN r1, j \in DOMAIN r2 : r1[i].id # r2[j].id

\* C25: when the query of a list request runs, while follow and unfollow
\* requests of the viewer are under way, every row of its result carries the
\* is_following_author value that the follows table of that one state gives
\* for (viewer, author), so posts of one author carry the same value.
C25_ListReadsFollowsOnce ==
  [][\A s \in Slots :
       (reqs[s].op = "list" /\ reqs[s].pc = "query" /\ reqs'[s].pc = "done") =>
         LET rows == reqs'[s].rows IN
         /\ \A i \in DOMAIN rows :
              rows[i].is_following_author <=> Follows(reqs[s].actor, rows[i].user_id)
         /\ \A i, j \in DOMAIN rows :
              rows[i].user_id = rows[j].user_id =>
                rows[i].is_following_author = rows[j].is_following_author]_vars

\* A list response holds two posts of one author marked as followed, and the
\* viewer has unfollowed that author since.
C25_Witness ==
  \E s \in Slots :
    LET rows == reqs[s].rows IN
    /\ reqs[s].op = "list" /\ reqs[s].pc = "done" /\ Len(rows) >= 2
    /\ rows[1].user_id = rows[2].user_id
    /\ rows[1].is_following_author /\ rows[2].is_following_author
    /\ ~Follows(reqs[s].actor, rows[1].user_id)

====
